---- MODULE Spec2Model ----
(***************************************************************************)
(* Model of hota_metrics/datasets/kitti_3d_box.py (class Kitti3DBox):      *)
(*   - get_preprocessed_seq_data, the per-sequence / per-class detection   *)
(*     preprocessor (specification Spec);                                  *)
(*   - __box_3d_GIoU and its helpers, the oriented 3D box similarity       *)
(*     engine (specification SpecGeo).                                     *)
(*                                                                         *)
(* Conventions.                                                            *)
(*   - numpy arrays are sequences; TLA+ sequences are 1-based, so frame t  *)
(*     of the source is index t+1 here, and column obj[k] of a detection   *)
(*     row is det[k+1].                                                    *)
(*   - floating point numbers are exact rationals <<n, d>> with d > 0,     *)
(*     kept in lowest terms (or integers where the source value is an      *)
(*     integer for the modelled inputs).                                   *)
(*   - a 2D numpy array is [shape |-> <<rows, cols>>, val |-> rows of      *)
(*     entries], so that the shape of an empty matrix is kept as numpy     *)
(*     keeps it.                                                           *)
(*   - the yaw angle of a 3D box is counted in quarter turns, where sine   *)
(*     and cosine are exact.                                               *)
(***************************************************************************)
EXTENDS Integers, Sequences, FiniteSets, TLC

VARIABLES
    \* ---- get_preprocessed_seq_data ----
    raw_data,            \* the raw_data argument (dict of per-frame arrays)
    cls,                 \* the cls argument
    pc,                  \* position in get_preprocessed_seq_data
    t,                   \* loop index of the per-frame loop (next frame to do)
    data,                \* the data dict being built / returned
    unique_gt_ids,       \* list, then np.unique array, of surviving gt ids
    unique_tracker_ids,  \* list, then np.unique array, of surviving tracker ids
    num_gt_dets,
    num_tracker_dets,
    matched,             \* per frame: the accepted (row, col) matches (local)
    order,               \* the frames in the order the loop takes them
    solved,              \* linear_sum_assignment: the assignments returned so far
    returned,            \* the calls that have ended: class, outcome, data
    \* ---- __box_3d_GIoU ----
    bboxes1,             \* argument
    bboxes2,             \* argument
    do_ioa,              \* argument
    box_format,          \* argument
    gpc,                 \* position in __box_3d_GIoU
    aa_i,                \* index of the outer loop
    bb_j,                \* index of the inner loop
    row_metrics,
    giou3d_metrics,
    pair,                \* locals of the last executed inner iteration
    ret                  \* the returned array

pvars == <<raw_data, cls, pc, t, data, unique_gt_ids, unique_tracker_ids,
           num_gt_dets, num_tracker_dets, matched, order, solved, returned>>
gvars == <<bboxes1, bboxes2, do_ioa, box_format, gpc, aa_i, bb_j,
           row_metrics, giou3d_metrics, pair, ret>>
vars == <<pvars, gvars>>

(***************************************************************************)
(* Rational arithmetic (the floats of the source).                         *)
(***************************************************************************)
Abs(n) == IF n < 0 THEN -n ELSE n

RECURSIVE GCD(_, _)
GCD(a, b) == IF b = 0 THEN a ELSE GCD(b, a % b)

\* n / d for d # 0, in lowest terms with a positive denominator
Rat(n, d) ==
    LET g == GCD(Abs(n), Abs(d))
        s == IF d < 0 THEN -1 ELSE 1
    IN  <<s * (n \div g), s * (d \div g)>>

RInt(n) == <<n, 1>>
RAdd(a, b) == Rat(a[1] * b[2] + b[1] * a[2], a[2] * b[2])
RSub(a, b) == Rat(a[1] * b[2] - b[1] * a[2], a[2] * b[2])
RMul(a, b) == Rat(a[1] * b[1], a[2] * b[2])
RLess(a, b) == a[1] * b[2] < b[1] * a[2]
RLeq(a, b) == a[1] * b[2] <= b[1] * a[2]
REq(a, b) == a[1] * b[2] = b[1] * a[2]

Min2(a, b) == IF a < b THEN a ELSE b
Max2(a, b) == IF a > b THEN a ELSE b
SetMin(S) == CHOOSE m \in S : \A x \in S : m <= x
SetMax(S) == CHOOSE m \in S : \A x \in S : m >= x

(***************************************************************************)
(* numpy indexing.                                                         *)
(***************************************************************************)
RECURSIVE SortedSeq(_)
\* the elements of a finite set of integers, ascending
SortedSeq(S) ==
    IF S = {} THEN <<>>
    ELSE LET m == SetMin(S) IN <<m>> \o SortedSeq(S \ {m})

Range(s) == {s[i] : i \in DOMAIN s}

\* arr[idx] for an integer index array idx
Take(arr, idx) == [k \in 1..Len(idx) |-> arr[idx[k]]]

\* the positions where a boolean mask is True, ascending
Where(mask) == SortedSeq({i \in DOMAIN mask : mask[i]})

\* arr[mask] for a boolean mask
MaskSelect(arr, mask) == Take(arr, Where(mask))

\* np.delete(arr, idx, axis=0) for a set of positions
Delete(arr, idx) == Take(arr, SortedSeq(DOMAIN arr \ idx))

\* the distinct values in the order of their first occurrence
Unique_first_seen(arr) ==
    [k \in 1..Cardinality(Range(arr)) |->
        arr[CHOOSE i \in DOMAIN arr :
            /\ \A j \in 1..(i - 1) : arr[j] # arr[i]
            /\ Cardinality({arr[j] : j \in 1..i}) = k]]

\* np.unique(arr): the sorted distinct values
Unique(arr) == SortedSeq(Range(arr))

\* 2D arrays
Matrix(n, m, entry) ==
    [shape |-> <<n, m>>, val |-> [i \in 1..n |-> [j \in 1..m |-> entry[i][j]]]]
\* A[rows, :][:, cols] for index arrays rows, cols
SubMatrix(A, rows, cols) ==
    [shape |-> <<Len(rows), Len(cols)>>,
     val |-> [i \in 1..Len(rows) |-> [j \in 1..Len(cols) |-> A.val[rows[i]][cols[j]]]]]
AllRows(A) == [i \in 1..A.shape[1] |-> i]
AllCols(A) == [j \in 1..A.shape[2] |-> j]
\* a deletion along axis 1 that leaves the matrix as it is
DeleteCols_nothing(A, idx) == A

\* np.delete(A, idx, axis=1)
DeleteCols(A, idx) == SubMatrix(A, AllRows(A), SortedSeq((1..A.shape[2]) \ idx))
\* A[mask] for a boolean row mask
MaskRows(A, mask) == SubMatrix(A, Where(mask), AllCols(A))

(***************************************************************************)
(* 2D geometry on points <<x, z>> of the ground plane.                     *)
(***************************************************************************)
\* (a - o) x (b - o): > 0 when b is to the left of the ray o -> a
Cross(o, a, b) == (a[1] - o[1]) * (b[2] - o[2]) - (a[2] - o[2]) * (b[1] - o[1])
Dot(u, v) == u[1] * v[1] + u[2] * v[2]
Vec(p, q) == <<q[1] - p[1], q[2] - p[2]>>

\* the value Python's None stands for in __polygon_clip: no polygon
None == <<>>

\* an inside test that takes the points on the clip edge as inside
inside_or_on(p, cp1, cp2) ==
    (cp2[1] - cp1[1]) * (p[2] - cp1[2]) >= (cp2[2] - cp1[2]) * (p[1] - cp1[1])

\* inside(p) of __polygon_clip, for the clip edge cp1 -> cp2 (strict)
inside(p, cp1, cp2) ==
    (cp2[1] - cp1[1]) * (p[2] - cp1[2]) > (cp2[2] - cp1[2]) * (p[1] - cp1[1])

\* the crossing replaced by the end point e of the subject edge
computeIntersection_endpoint(cp1, cp2, s, e) == e

\* computeIntersection() of __polygon_clip: the crossing of the line through
\* cp1, cp2 with the line through s, e. It is called only with exactly one
\* of s, e strictly inside, so the denominator is not zero; on the modelled
\* inputs (axis-parallel edges, integer corners) the quotient is an integer.
computeIntersection(cp1, cp2, s, e) ==
    LET dc == <<cp1[1] - cp2[1], cp1[2] - cp2[2]>>
        dp == <<s[1] - e[1], s[2] - e[2]>>
        n1 == cp1[1] * cp2[2] - cp1[2] * cp2[1]
        n2 == s[1] * e[2] - s[2] * e[1]
        n3 == dc[1] * dp[2] - dc[2] * dp[1]
    IN  <<(n1 * dp[1] - n2 * dc[1]) \div n3, (n1 * dp[2] - n2 * dc[2]) \div n3>>

RECURSIVE ClipAgainstEdge(_, _, _, _, _)
\* the inner loop of __polygon_clip from subject vertex k on, s the previous
\* vertex: the vertices appended to outputList
ClipAgainstEdge(inputList, cp1, cp2, k, s) ==
    IF k > Len(inputList) THEN <<>>
    ELSE LET e == inputList[k]
             out == IF inside(e, cp1, cp2)
                    THEN (IF ~inside(s, cp1, cp2)
                          THEN <<computeIntersection(cp1, cp2, s, e)>>
                          ELSE <<>>) \o <<e>>
                    ELSE IF inside(s, cp1, cp2)
                         THEN <<computeIntersection(cp1, cp2, s, e)>>
                         ELSE <<>>
         IN  out \o ClipAgainstEdge(inputList, cp1, cp2, k + 1, e)

RECURSIVE ClipLoop(_, _, _, _)
\* the outer loop of __polygon_clip from clip vertex j on
ClipLoop(outputList, clipPolygon, j, cp1) ==
    IF j > Len(clipPolygon) THEN outputList
    ELSE LET cp2 == clipPolygon[j]
             out == ClipAgainstEdge(outputList, cp1, cp2, 1,
                                    outputList[Len(outputList)])
         IN  IF Len(out) = 0 THEN None
             ELSE ClipLoop(out, clipPolygon, j + 1, cp2)

\* __polygon_clip(subjectPolygon, clipPolygon)
polygon_clip(subjectPolygon, clipPolygon) ==
    ClipLoop(subjectPolygon, clipPolygon, 1, clipPolygon[Len(clipPolygon)])

(***************************************************************************)
(* scipy.spatial.ConvexHull of 2D points, by its contract: the hull        *)
(* vertices in counter-clockwise order and the hull's area ("volume" in    *)
(* 2D); QhullError when the points span no area (fewer than 3 distinct     *)
(* points, or all collinear).                                              *)
(***************************************************************************)
\* the points span no area: all on one line (or fewer than 3 distinct)
FlatPoints(S) ==
    \/ Cardinality(S) < 3
    \/ LET p == CHOOSE x \in S : TRUE
           q == CHOOSE x \in S \ {p} : TRUE
       IN  \A r \in S : Cross(p, q, r) = 0

\* the lowest, then leftmost, point: a corner of the hull
LowestPoint(S) ==
    CHOOSE p \in S : \A q \in S : p[2] < q[2] \/ (p[2] = q[2] /\ p[1] <= q[1])

\* the hull corner that follows the corner p counter-clockwise: every
\* point is to the left of p -> q, or on it and no farther than q
HullNext(S, p) ==
    CHOOSE q \in S \ {p} : \A r \in S :
        \/ Cross(p, q, r) > 0
        \/ /\ Cross(p, q, r) = 0
           /\ Dot(Vec(p, r), Vec(p, r)) <= Dot(Vec(p, q), Vec(p, q))

RECURSIVE HullWalk(_, _, _)
HullWalk(S, start, p) ==
    LET q == HullNext(S, p)
    IN  <<p>> \o (IF q = start THEN <<>> ELSE HullWalk(S, start, q))

\* the hull vertices counter-clockwise; the list begins with the first-th
\* vertex (cyclically) counted from the lowest one, since Qhull does not
\* document where its list begins
HullVertices(S, first) ==
    LET w == HullWalk(S, LowestPoint(S), LowestPoint(S))
        n == Len(w)
    IN  [k \in 1..n |-> w[((first - 1 + k - 1) % n) + 1]]

RECURSIVE Shoelace2(_, _)
\* twice the signed area of the polygon poly, from vertex k on
Shoelace2(poly, k) ==
    IF k > Len(poly) THEN 0
    ELSE LET p == poly[k]
             q == poly[(k % Len(poly)) + 1]
         IN  p[1] * q[2] - q[1] * p[2] + Shoelace2(poly, k + 1)

\* ConvexHull(points): err is "QhullError" when Qhull raises
ConvexHull(points, first) ==
    LET S == Range(points)
    IN  IF FlatPoints(S)
        THEN [err |-> "QhullError", volume |-> RInt(0), vertices |-> <<>>]
        ELSE LET hv == HullVertices(S, first)
             IN  [err |-> "none", volume |-> Rat(Shoelace2(hv, 1), 2), vertices |-> hv]

(***************************************************************************)
(* __min_bounding_rect: the area of the smallest rectangle, aligned with   *)
(* one of the tested hull edges, around the hull points.                   *)
(***************************************************************************)
\* edges[i] = hull_points_2d[i+1] - hull_points_2d[i], i in range(len - 1)
HullEdges(hull_points_2d) ==
    [i \in 1..(Len(hull_points_2d) - 1) |-> Vec(hull_points_2d[i], hull_points_2d[i + 1])]

\* a second side parallel to the first instead of perpendicular to it
Perp_parallel(d) == d

Perp(d) == <<-d[2], d[1]>>
Extent(hull_points_2d, d) ==
    LET proj == {Dot(hull_points_2d[k], d) : k \in DOMAIN hull_points_2d}
    IN  SetMax(proj) - SetMin(proj)

\* width * height of the bounding rectangle whose sides are parallel and
\* perpendicular to the edge direction d: rotating by the angle of d modulo
\* 90 degrees projects the points on d / |d| and on its normal
RectArea(hull_points_2d, d) ==
    Rat(Extent(hull_points_2d, d) * Extent(hull_points_2d, Perp(d)), Dot(d, d))

RECURSIVE MinArea(_, _, _, _)
\* the loop over the candidate angles: min_bbox[1] after candidates k..
MinArea(hull_points_2d, edges, k, best) ==
    IF k > Len(edges) THEN best
    ELSE LET area == RectArea(hull_points_2d, edges[k])
         IN  MinArea(hull_points_2d, edges, k + 1,
                     IF RLess(area, best) THEN area ELSE best)

\* sys.maxsize, the area min_bbox starts with: above every area (+infinity)
MaxSize == <<1, 0>>

\* the area entry of __min_bounding_rect(hull_points_2d)
min_bounding_rect(hull_points_2d) ==
    MinArea(hull_points_2d, HullEdges(hull_points_2d), 1, MaxSize)

(***************************************************************************)
(* 3D boxes. A detection row is                                            *)
(*   <<x0, y0, x1, y1, h, w, l, x, y, z, ry>>  (obj[0] .. obj[10]).        *)
(***************************************************************************)
Cos4(q) == <<1, 0, -1, 0>>[(q % 4) + 1]
Sin4(q) == <<0, 1, 0, -1>>[(q % 4) + 1]

\* __compute_box_3d(obj): the 8 corners <<x, y, z>>
compute_box_3d(obj) ==
    LET c == Cos4(obj[11])
        s == Sin4(obj[11])
        l == obj[7]
        w == obj[6]
        h == obj[5]
        x_corners == <<l \div 2, l \div 2, -(l \div 2), -(l \div 2),
                       l \div 2, l \div 2, -(l \div 2), -(l \div 2)>>
        y_corners == <<0, 0, 0, 0, -h, -h, -h, -h>>
        z_corners == <<w \div 2, -(w \div 2), -(w \div 2), w \div 2,
                       w \div 2, -(w \div 2), -(w \div 2), w \div 2>>
    IN  [k \in 1..8 |->
            <<c * x_corners[k] + s * z_corners[k] + obj[8],
              y_corners[k] + obj[9],
              (-s) * x_corners[k] + c * z_corners[k] + obj[10]>>]

\* np.sqrt of an integer that is a perfect square on the modelled inputs
Sqrt(n) == CHOOSE r \in 0..n : r * r = n

Dist(p, q) ==
    Sqrt((p[1] - q[1]) * (p[1] - q[1]) + (p[2] - q[2]) * (p[2] - q[2])
         + (p[3] - q[3]) * (p[3] - q[3]))

\* __box3d_vol(corners)
box3d_vol(corners) ==
    Dist(corners[1], corners[2]) * Dist(corners[2], corners[3])
        * Dist(corners[1], corners[5])

\* [(corners[i, 0], corners[i, 2]) for i in range(3, -1, -1)]
Footprint(corners) == [k \in 1..4 |-> <<corners[5 - k][1], corners[5 - k][3]>>]

\* __convex_hull_intersection(p1, p2): the clip polygon and its area
convex_hull_intersection(p1, p2) ==
    LET inter_p == polygon_clip(p1, p2)
    IN  IF inter_p # None
        THEN LET hull_inter == ConvexHull(inter_p, 1)
             IN  [err |-> hull_inter.err, inter |-> inter_p, area |-> hull_inter.volume]
        ELSE [err |-> "none", inter |-> None, area |-> RInt(0)]

\* __box3d_iou(corners1, corners2)
box3d_iou(corners1, corners2) ==
    LET rect1 == Footprint(corners1)
        rect2 == Footprint(corners2)
        chi == convex_hull_intersection(rect1, rect2)
        ymax == Min2(corners1[1][2], corners2[1][2])
        ymin == Max2(corners1[5][2], corners2[5][2])
    IN  [err |-> chi.err,
         inter |-> chi.inter,
         inter_vol |-> RMul(chi.area, RInt(Max2(0, ymax - ymin))),
         vol1 |-> RInt(box3d_vol(corners1)),
         vol2 |-> RInt(box3d_vol(corners2))]

\* __bbox3d_min_oobb(corners1, corners2)
bbox3d_min_oobb(corners1, corners2, first) ==
    LET rect1 == Footprint(corners1)
        rect2 == Footprint(corners2)
        vertices == rect1 \o rect2
        hull == ConvexHull(vertices, first)
        ymax == Max2(corners1[1][2], corners2[1][2])
        ymin == Min2(corners1[5][2], corners2[5][2])
    IN  IF hull.err # "none" THEN [err |-> hull.err, A_c |-> RInt(0)]
        ELSE [err |-> "none",
              A_c |-> RMul(min_bounding_rect(hull.vertices), RInt(ymax - ymin))]

\* what numpy's float division yields for a zero divisor (nan or inf)
NotFinite == <<1, 0>>
IsFinite(a) == a[2] # 0
RDiv(a, b) ==
    IF ~IsFinite(a) \/ ~IsFinite(b) \/ b[1] = 0 THEN NotFinite
    ELSE Rat(a[1] * b[2], a[2] * b[1])
FSub(a, b) == IF ~IsFinite(a) \/ ~IsFinite(b) THEN NotFinite ELSE RSub(a, b)
FAdd(a, b) == IF ~IsFinite(a) \/ ~IsFinite(b) THEN NotFinite ELSE RAdd(a, b)

\* the two formulas of __box_3d_GIoU and the value appended to row_metrics
giou3d(inter, vol1, vol2, A_c, ioa) ==
    LET union == RSub(RAdd(vol1, vol2), inter)
    IN  IF ioa
        THEN FSub(RDiv(inter, vol1), RDiv(RSub(A_c, union), A_c))
        ELSE FSub(RDiv(inter, union), RDiv(RSub(A_c, union), A_c))

\* the value without the shift by 1
Normalized_unshifted(g) == RDiv(g, RInt(2))

Normalized(g) == RDiv(FAdd(g, RInt(1)), RInt(2))

\* one iteration of the inner loop of __box_3d_GIoU, after the box_format
\* test: the locals, and err = "QhullError" when ConvexHull raises
PairMetrics(aa, bb, ioa, first) ==
    LET aa_3d == compute_box_3d(aa)
        bb_3d == compute_box_3d(bb)
        iou == box3d_iou(aa_3d, bb_3d)
        oobb == IF iou.err = "none" THEN bbox3d_min_oobb(aa_3d, bb_3d, first)
                ELSE [err |-> iou.err, A_c |-> RInt(0)]
    IN  [aa |-> aa, bb |-> bb,
         err |-> oobb.err,
         clip |-> iou.inter,
         inter |-> iou.inter_vol, vol1 |-> iou.vol1, vol2 |-> iou.vol2,
         A_c |-> oobb.A_c,
         metric |-> IF oobb.err = "none"
                    THEN Normalized(giou3d(iou.inter_vol, iou.vol1, iou.vol2, oobb.A_c, ioa))
                    ELSE NotFinite]

(***************************************************************************)
(* The 2D overlap primitive _calculate_box_ious of the base dataset class  *)
(* (boxes <<x0, y0, x1, y1>>): IoU, or with do_ioa the intersection over   *)
(* the area of the first box.                                              *)
(***************************************************************************)
Box2D(det) == <<det[1], det[2], det[3], det[4]>>
Area2D(b) == (b[3] - b[1]) * (b[4] - b[2])
Inter2D(a, b) ==
    Max2(Min2(a[3], b[3]) - Max2(a[1], b[1]), 0)
        * Max2(Min2(a[4], b[4]) - Max2(a[2], b[2]), 0)
BoxIoU(a, b) ==
    LET i == Inter2D(a, b)
        u == Area2D(a) + Area2D(b) - i
    IN  IF Area2D(a) <= 0 \/ Area2D(b) <= 0 \/ u <= 0 THEN RInt(0) ELSE Rat(i, u)
BoxIoA(a, b) ==
    IF Area2D(a) <= 0 THEN RInt(0) ELSE Rat(Inter2D(a, b), Area2D(a))
calculate_box_ious(bboxes_1, bboxes_2, ioa) ==
    Matrix(Len(bboxes_1), Len(bboxes_2),
           [i \in DOMAIN bboxes_1 |-> [j \in DOMAIN bboxes_2 |->
               IF ioa THEN BoxIoA(bboxes_1[i], bboxes_2[j])
               ELSE BoxIoU(bboxes_1[i], bboxes_2[j])]])

\* _calculate_similarities(gt_dets_t, tracker_dets_t); similarity3d[aa][bb]
\* is the entry __box_3d_GIoU computes for the pair (aa, bb)
calculate_similarities(gt_dets_t, tracker_dets_t, similarity3d) ==
    <<Matrix(Len(gt_dets_t), Len(tracker_dets_t),
             [i \in DOMAIN gt_dets_t |-> [j \in DOMAIN tracker_dets_t |->
                 similarity3d[gt_dets_t[i]][tracker_dets_t[j]]]]),
      calculate_box_ious([i \in DOMAIN gt_dets_t |-> Box2D(gt_dets_t[i])],
                         [j \in DOMAIN tracker_dets_t |-> Box2D(tracker_dets_t[j])],
                         FALSE)>>

(***************************************************************************)
(* Kitti3DBox configuration (__init__).                                    *)
(***************************************************************************)
max_occlusion == 2
max_truncation == 0
min_height == 25
class_name_to_class_id ==
    [car |-> 1, van |-> 2, truck |-> 3, pedestrian |-> 4, person |-> 5,
     cyclist |-> 6, tram |-> 7, misc |-> 8, dontcare |-> 9]
\* the thresholds written in get_preprocessed_seq_data
MatchThreshold == <<1, 4>>
CrowdThreshold == <<1, 2>>

(***************************************************************************)
(* The rows of the label files the model draws its sequences from. A row   *)
(* is [id, class, truncation, occlusion, det, conf]; det is the 11-column  *)
(* detection row, conf the tracker confidence in percent.                  *)
(***************************************************************************)
MaxTimesteps == 2      \* frames of a sequence
MaxGtRows == 2         \* rows of a ground-truth file
MaxTrackerRows == 2    \* rows of a tracker file
HullStarts == 8        \* places the hull vertex list of 8 corners can begin

Row(id, class, truncation, occlusion, box2d, box3d, conf) ==
    [id |-> id, class |-> class, truncation |-> truncation,
     occlusion |-> occlusion, det |-> box2d \o box3d, conf |-> conf]

\* image boxes <<x0, y0, x1, y1>>
BoxFull == <<0, 0, 2, 100>>
Box80 == <<0, 0, 2, 80>>          \* IoU 0.8 with BoxFull
Box25 == <<0, 0, 2, 25>>          \* IoU 0.25 with BoxFull, height 25
Region == <<200, 0, 210, 100>>    \* a crowd ignore region
BoxIoA50 == <<205, 0, 215, 26>>   \* IoA 0.5 with Region, height 26
BoxIoA60 == <<204, 0, 214, 30>>   \* IoA 0.6 with Region
BoxIoA40 == <<206, 0, 216, 30>>   \* IoA 0.4 with Region
BoxThin == <<0, 0, 1, 30>>        \* IoU 0.15 with BoxFull, 0.1875 with Box80

\* 3D boxes <<h, w, l, x, y, z, ry>>, ry in quarter turns
Pose0 == <<2, 2, 4, 0, 0, 0, 0>>
Pose1 == <<2, 2, 4, 3, 0, 1, 0>>
Pose2 == <<2, 2, 4, 5, 0, 0, 0>>
Pose3 == <<2, 2, 4, 0, 0, 0, 1>>
Pose4 == <<2, 2, 2, 5, 0, 2, 0>>
Pose5 == <<4, 2, 2, 0, 1, 0, 0>>

GtRows ==
    LET c == class_name_to_class_id
    IN  { Row(1, c.car, 0, 2, Box80, Pose0, 100),
          Row(4, c.car, 0, 0, Box25, Pose1, 100),
          Row(3, c.car, 0, 3, BoxFull, Pose3, 100),
          Row(0, c.car, 1, 0, Box80, Pose2, 100),
          Row(5, c.car, 0, 0, BoxIoA60, Pose3, 100),
          Row(3, c.van, 0, 0, BoxFull, Pose4, 100),
          Row(2, c.pedestrian, 0, 0, Box80, Pose0, 100),
          Row(0, c.dontcare, 0, 0, Region, Pose5, 100) }

TrackerRows ==
    LET c == class_name_to_class_id
    IN  { Row(0, c.car, 0, 0, Box80, Pose0, 90),
          Row(2, c.car, 0, 0, Box25, Pose1, 80),
          Row(2, c.car, 0, 0, BoxIoA50, Pose2, 70),
          Row(5, c.car, 0, 0, BoxIoA60, Pose3, 60),
          Row(0, c.car, 0, 0, BoxIoA40, Pose4, 50),
          Row(3, c.car, 0, 0, BoxThin, Pose2, 30),
          Row(1, c.pedestrian, 0, 0, Box80, Pose5, 40) }

\* the rows the sequences of several frames are drawn from: rows that
\* differ in identity and in what becomes of them
GtSeqRows ==
    LET c == class_name_to_class_id
    IN  { Row(1, c.car, 0, 2, Box80, Pose0, 100),
          Row(4, c.car, 0, 0, Box25, Pose1, 100),
          Row(3, c.car, 0, 3, BoxFull, Pose3, 100) }

TrackerSeqRows ==
    LET c == class_name_to_class_id
    IN  { Row(0, c.car, 0, 0, Box80, Pose0, 90),
          Row(2, c.car, 0, 0, Box25, Pose1, 80),
          Row(5, c.car, 0, 0, BoxIoA60, Pose3, 60) }

GtRowsFor(nt) == IF nt = 1 THEN GtRows ELSE GtSeqRows
TrackerRowsFor(nt) == IF nt = 1 THEN TrackerRows ELSE TrackerSeqRows

SeqsUpTo(S, n) == UNION {[1..k -> S] : k \in 0..n}

RECURSIVE TotalLen(_, _)
TotalLen(frames, k) ==
    IF k > Len(frames) THEN 0 ELSE Len(frames[k]) + TotalLen(frames, k + 1)

\* the rows of a file, grouped by frame
Files(rows, nt, maxRows) ==
    {f \in [1..nt -> SeqsUpTo(rows, maxRows)] : TotalLen(f, 1) <= maxRows}

Column(rows, key) == [i \in DOMAIN rows |-> rows[i][key]]

\* _load_raw_file for the ground truth and for the tracker, and the
\* similarity matrices get_raw_seq_data adds: the raw_data of one sequence
\* the entries of __box_3d_GIoU(gt_dets, tracker_dets, box_format='xyzhwlr')
\* for the detections of the label rows, computed once
SimilarityTable ==
    [first \in 1..HullStarts |->
        [aa \in {r.det : r \in GtRows} |->
            [bb \in {r.det : r \in TrackerRows} |->
                PairMetrics(aa, bb, FALSE, first).metric]]]

\* first: where the hull vertex lists of this run of the engine begin
RawData(nt, gt_file, tracker_file, first) ==
    LET dontcare == class_name_to_class_id.dontcare
        read(tt) == SelectSeq(gt_file[tt], LAMBDA r : r.class # dontcare)
        ignore(tt) == SelectSeq(gt_file[tt], LAMBDA r : r.class = dontcare)
        gt_dets == [tt \in 1..nt |-> Column(read(tt), "det")]
        tracker_dets == [tt \in 1..nt |-> Column(tracker_file[tt], "det")]
    IN  [num_timesteps |-> nt,
         seq |-> "0000",
         gt_ids |-> [tt \in 1..nt |-> Column(read(tt), "id")],
         gt_classes |-> [tt \in 1..nt |-> Column(read(tt), "class")],
         gt_dets |-> gt_dets,
         gt_extras |-> [tt \in 1..nt |->
                           [truncation |-> Column(read(tt), "truncation"),
                            occlusion |-> Column(read(tt), "occlusion")]],
         gt_crowd_ignore_regions |-> [tt \in 1..nt |-> Column(ignore(tt), "det")],
         tracker_ids |-> [tt \in 1..nt |-> Column(tracker_file[tt], "id")],
         tracker_classes |-> [tt \in 1..nt |-> Column(tracker_file[tt], "class")],
         tracker_dets |-> tracker_dets,
         tracker_confidences |-> [tt \in 1..nt |-> Column(tracker_file[tt], "conf")],
         similarity_scores |-> [tt \in 1..nt |->
                                   calculate_similarities(gt_dets[tt], tracker_dets[tt],
                                       SimilarityTable[first])]]

(***************************************************************************)
(* get_preprocessed_seq_data: the body of the per-frame loop.              *)
(***************************************************************************)
cls_id(c) == class_name_to_class_id[c]
distractor_classes(c) ==
    IF c = "pedestrian" THEN {class_name_to_class_id.person}
    ELSE {class_name_to_class_id.van}

gt_class_mask(raw, tt, c) ==
    [i \in DOMAIN raw.gt_classes[tt] |->
        raw.gt_classes[tt][i] \in ({cls_id(c)} \cup distractor_classes(c))]

tracker_class_mask(raw, tt, c) ==
    [j \in DOMAIN raw.tracker_classes[tt] |-> raw.tracker_classes[tt][j] = cls_id(c)]

\* the arrays of frame tt restricted to the class (and its distractors)
Selected(raw, tt, c) ==
    LET gm == gt_class_mask(raw, tt, c)
        tm == tracker_class_mask(raw, tt, c)
    IN  [gt_ids |-> MaskSelect(raw.gt_ids[tt], gm),
         gt_dets |-> MaskSelect(raw.gt_dets[tt], gm),
         gt_classes |-> MaskSelect(raw.gt_classes[tt], gm),
         gt_occlusion |-> MaskSelect(raw.gt_extras[tt].occlusion, gm),
         gt_truncation |-> MaskSelect(raw.gt_extras[tt].truncation, gm),
         tracker_ids |-> MaskSelect(raw.tracker_ids[tt], tm),
         tracker_dets |-> MaskSelect(raw.tracker_dets[tt], tm),
         tracker_confidences |-> MaskSelect(raw.tracker_confidences[tt], tm),
         similarity_scores |->
             SubMatrix(raw.similarity_scores[tt][1], Where(gm), Where(tm)),
         similarity_scores_2d |->
             SubMatrix(raw.similarity_scores[tt][2], Where(gm), Where(tm))]

\* a threshold that also zeroes a score equal to it
Thresholded_inclusive(score) == IF RLeq(score, MatchThreshold) THEN RInt(0) ELSE score

\* matching_scores[matching_scores < 0.25] = 0
Thresholded(score) == IF RLess(score, MatchThreshold) THEN RInt(0) ELSE score

matching_scores(sel) ==
    Matrix(sel.similarity_scores_2d.shape[1], sel.similarity_scores_2d.shape[2],
           [i \in 1..sel.similarity_scores_2d.shape[1] |->
               [j \in 1..sel.similarity_scores_2d.shape[2] |->
                   Thresholded(sel.similarity_scores_2d.val[i][j])]])

\* the complete assignments of an n x m matrix, as (row, col) pairs in
\* ascending row order: min(n, m) pairs, no row and no column twice
Assignments(n, m) ==
    IF n <= m
    THEN {[i \in 1..n |-> <<i, f[i]>>] :
            f \in {g \in [1..n -> 1..m] : \A a \in 1..n, b \in 1..n : g[a] = g[b] => a = b}}
    ELSE {LET rows == SortedSeq({f[j] : j \in 1..m})
          IN  [k \in 1..m |-> <<rows[k], CHOOSE j \in 1..m : f[j] = rows[k]>>] :
            f \in {g \in [1..m -> 1..n] : \A a \in 1..m, b \in 1..m : g[a] = g[b] => a = b}}

RECURSIVE TotalScore(_, _, _)
TotalScore(M, assignment, k) ==
    IF k > Len(assignment) THEN RInt(0)
    ELSE RAdd(M.val[assignment[k][1]][assignment[k][2]], TotalScore(M, assignment, k + 1))

\* scipy.optimize.linear_sum_assignment(-M), by its contract: a complete
\* assignment of the greatest total score; which one, among equals, is
\* scipy's choice
linear_sum_assignment(M) ==
    LET all == Assignments(M.shape[1], M.shape[2])
    IN  {a \in all : \A b \in all : RLeq(TotalScore(M, b, 1), TotalScore(M, a, 1))}

\* match_rows, match_cols after actually_matched_mask
ActuallyMatched(M, assignment) ==
    SelectSeq(assignment, LAMBDA p : RLess(RInt(0), M.val[p[1]][p[2]]))

\* the accepted matches the frame can end with (none without a gt or
\* without a tracker detection)
MatchChoices(sel) ==
    IF Len(sel.gt_ids) > 0 /\ Len(sel.tracker_ids) > 0
    THEN {ActuallyMatched(matching_scores(sel), a) :
            a \in linear_sum_assignment(matching_scores(sel))}
    ELSE {<<>>}

\* a solver that may settle a tie differently each time it is called
lsa_results_anew(sol, M) == linear_sum_assignment(M)

\* linear_sum_assignment is a function of its argument: a matrix it has
\* solved before (sol) gets the assignment it got then
lsa_results(sol, M) ==
    IF M \in DOMAIN sol THEN {sol[M]} ELSE linear_sum_assignment(M)

\* the accepted matches the frame can end with, each with the assignments
\* linear_sum_assignment has returned by then
MatchOutcomes(sol, sel) ==
    IF Len(sel.gt_ids) > 0 /\ Len(sel.tracker_ids) > 0
    THEN LET M == matching_scores(sel)
         IN  {[match |-> ActuallyMatched(M, a),
               solved |-> IF M \in DOMAIN sol THEN sol ELSE (M :> a) @@ sol] :
                a \in lsa_results(sol, M)}
    ELSE {[match |-> <<>>, solved |-> sol]}

\* matching_scores as a view of the raw 2D similarity matrix
matching_scores_base_raw == "raw_data"

\* the array that matching_scores[matching_scores < 0.25] = 0 writes to:
\* similarity_scores_2d is a new array (indexing with boolean masks copies,
\* line 350) and matching_scores is a copy of it (line 369)
matching_scores_base == "copy"

\* raw_data after the statements of one iteration: the only assignment
\* into an array is the one to matching_scores
raw_data_after(raw, tt, c) ==
    LET sel == Selected(raw, tt, c)
        gm == gt_class_mask(raw, tt, c)
        tm == tracker_class_mask(raw, tt, c)
        sim2d == raw.similarity_scores[tt][2]
    IN  IF /\ matching_scores_base = "raw_data"
           /\ Len(sel.gt_ids) > 0 /\ Len(sel.tracker_ids) > 0
        THEN [raw EXCEPT !.similarity_scores[tt][2].val =
                [i \in DOMAIN sim2d.val |-> [j \in DOMAIN sim2d.val[i] |->
                    IF gm[i] /\ tm[j] THEN Thresholded(sim2d.val[i][j])
                    ELSE sim2d.val[i][j]]]]
        ELSE raw

is_distractor_class(sel, c, row) == sel.gt_classes[row] \in distractor_classes(c)

\* the test without the occlusion level
is_truncated_only(sel, row) == sel.gt_truncation[row] > max_truncation

is_occluded_or_truncated(sel, row) ==
    \/ sel.gt_occlusion[row] > max_occlusion
    \/ sel.gt_truncation[row] > max_truncation

\* to_remove_matched: the columns matched to a gt det to be removed
to_remove_matched(sel, c, match) ==
    {match[k][2] : k \in {k \in DOMAIN match :
        is_distractor_class(sel, c, match[k][1]) \/ is_occluded_or_truncated(sel, match[k][1])}}

\* every tracker column taken as unmatched
unmatched_indices_all(sel, match) == 1..Len(sel.tracker_ids)

\* unmatched_indices = np.delete(np.arange(n), match_cols)
unmatched_indices(sel, match) ==
    (1..Len(sel.tracker_ids)) \ {match[k][2] : k \in DOMAIN match}

\* the height test with a strict comparison
is_too_small_strict(det) == det[4] - det[2] < min_height

is_too_small(det) == det[4] - det[2] <= min_height

is_within_crowd_ignore_region(det, crowd_ignore_regions) ==
    \E k \in DOMAIN crowd_ignore_regions :
        RLess(CrowdThreshold, BoxIoA(Box2D(det), Box2D(crowd_ignore_regions[k])))

to_remove_unmatched(sel, match, crowd_ignore_regions) ==
    {j \in unmatched_indices(sel, match) :
        \/ is_too_small(sel.tracker_dets[j])
        \/ is_within_crowd_ignore_region(sel.tracker_dets[j], crowd_ignore_regions)}

to_remove_tracker(sel, c, match, crowd_ignore_regions) ==
    to_remove_matched(sel, c, match) \cup to_remove_unmatched(sel, match, crowd_ignore_regions)

\* the keep mask without the truncation test
gt_to_keep_mask_any_truncation(sel, c) ==
    [i \in DOMAIN sel.gt_ids |->
        /\ sel.gt_occlusion[i] <= max_occlusion
        /\ sel.gt_classes[i] = cls_id(c)]

gt_to_keep_mask(sel, c) ==
    [i \in DOMAIN sel.gt_ids |->
        /\ sel.gt_occlusion[i] <= max_occlusion
        /\ sel.gt_truncation[i] <= max_truncation
        /\ sel.gt_classes[i] = cls_id(c)]

\* what one iteration stores in data[...][t]
FrameResult(raw, tt, c, match) ==
    LET sel == Selected(raw, tt, c)
        rm == to_remove_tracker(sel, c, match, raw.gt_crowd_ignore_regions[tt])
        keep == gt_to_keep_mask(sel, c)
    IN  [tracker_ids |-> Delete(sel.tracker_ids, rm),
         tracker_dets |-> Delete(sel.tracker_dets, rm),
         tracker_confidences |-> Delete(sel.tracker_confidences, rm),
         gt_ids |-> MaskSelect(sel.gt_ids, keep),
         gt_dets |-> MaskSelect(sel.gt_dets, keep),
         similarity_scores |-> MaskRows(DeleteCols(sel.similarity_scores, rm), keep)]

(***************************************************************************)
(* get_preprocessed_seq_data: relabeling and the final checks.             *)
(***************************************************************************)
\* np.nan in an id map (never read for a surviving id)
NaN == -1

\* an id map that leaves every identity at its original value
id_map_unchanged(unique_ids) ==
    [v \in 0..SetMax(Range(unique_ids)) |-> IF v \in Range(unique_ids) THEN v ELSE NaN]

\* gt_id_map / tracker_id_map: indexed by the original id value
id_map(unique_ids) ==
    [v \in 0..SetMax(Range(unique_ids)) |->
        IF v \in Range(unique_ids)
        THEN (CHOOSE k \in DOMAIN unique_ids : unique_ids[k] = v) - 1
        ELSE NaN]

\* id_map[ids].astype(np.int)
apply_id_map(map, ids) == [i \in DOMAIN ids |-> map[ids[i]]]

\* a relabeling that keeps one detection of every identity of a frame
relabel_merging(ids_per_frame, unique_ids) ==
    IF Len(unique_ids) > 0
    THEN LET map == id_map(Unique(unique_ids))
         IN  [tt \in DOMAIN ids_per_frame |->
                apply_id_map(map, Unique(ids_per_frame[tt]))]
    ELSE ids_per_frame

relabel(ids_per_frame, unique_ids) ==
    IF Len(unique_ids) > 0
    THEN LET map == id_map(Unique(unique_ids))
         IN  [tt \in DOMAIN ids_per_frame |->
                IF Len(ids_per_frame[tt]) > 0
                THEN apply_id_map(map, ids_per_frame[tt])
                ELSE ids_per_frame[tt]]
    ELSE ids_per_frame

uniqued(unique_ids) == IF Len(unique_ids) > 0 THEN Unique(unique_ids) ELSE unique_ids

\* _check_unique_ids(data) of the base dataset class: some frame holds an
\* identity twice
HasDuplicate(ids) == \E i \in DOMAIN ids, j \in DOMAIN ids : i # j /\ ids[i] = ids[j]
check_unique_ids_raises(d) ==
    \E tt \in DOMAIN d.gt_ids : HasDuplicate(d.gt_ids[tt]) \/ HasDuplicate(d.tracker_ids[tt])

(***************************************************************************)
(* State machine of one call get_preprocessed_seq_data(raw_data, cls).     *)
(*   pc: "idle" -> "frames" -> "check" -> "return"                         *)
(*       or "raise_class" (cls not evaluatable),                           *)
(*          "raise_ids"   (_check_unique_ids raised).                      *)
(* Specification Spec is one call; SpecCalls lets the caller call again    *)
(* with the same raw_data; SpecAnyOrder takes the frames in any order.     *)
(***************************************************************************)
Classes == {"car", "pedestrian", "van"}

EmptyMatrix == [shape |-> <<0, 0>>, val |-> <<>>]

\* data = {key: [None] * num_timesteps for key in data_keys}; None is <<>>,
\* and the overview statistics are 0 until they are recorded
NewData(nt) ==
    [gt_ids |-> [tt \in 1..nt |-> <<>>],
     tracker_ids |-> [tt \in 1..nt |-> <<>>],
     gt_dets |-> [tt \in 1..nt |-> <<>>],
     tracker_dets |-> [tt \in 1..nt |-> <<>>],
     tracker_confidences |-> [tt \in 1..nt |-> <<>>],
     similarity_scores |-> [tt \in 1..nt |-> EmptyMatrix],
     num_tracker_dets |-> 0, num_gt_dets |-> 0,
     num_tracker_ids |-> 0, num_gt_ids |-> 0,
     num_timesteps |-> 0, seq |-> ""]

GeoIdle ==
    /\ bboxes1 = <<>> /\ bboxes2 = <<>> /\ do_ioa = FALSE /\ box_format = ""
    /\ gpc = "idle" /\ aa_i = 0 /\ bb_j = 0
    /\ row_metrics = <<>> /\ giou3d_metrics = <<>>
    /\ pair = <<>> /\ ret = EmptyMatrix

Init ==
    /\ \E nt \in 1..MaxTimesteps :
         \E g \in Files(GtRowsFor(nt), nt, MaxGtRows),
            k \in Files(TrackerRowsFor(nt), nt, MaxTrackerRows),
            first \in 1..HullStarts :
                raw_data = RawData(nt, g, k, first)
    /\ cls = ""
    /\ pc = "idle"
    /\ t = 0
    /\ data = NewData(0)
    /\ unique_gt_ids = <<>>
    /\ unique_tracker_ids = <<>>
    /\ num_gt_dets = 0
    /\ num_tracker_dets = 0
    /\ matched = <<>>
    /\ order = <<>>
    /\ solved = <<>>
    /\ returned = <<>>
    /\ GeoIdle

\* range(raw_data['num_timesteps']), line 330
FrameRange(raw) == [k \in 1..raw.num_timesteps |-> k]

\* the call with an evaluatable class, lines 315-329
Begin ==
    /\ pc = "idle"
    /\ \E c \in Classes :
        /\ c \in {"pedestrian", "car"}
        /\ cls' = c
    /\ data' = NewData(raw_data.num_timesteps)
    /\ order' = FrameRange(raw_data)
    /\ pc' = "frames"
    /\ UNCHANGED <<raw_data, t, unique_gt_ids, unique_tracker_ids,
                   num_gt_dets, num_tracker_dets, matched, solved, returned, gvars>>

\* the call with another class, line 320
RaiseNotEvaluatable ==
    /\ pc = "idle"
    /\ \E c \in Classes :
        /\ c \notin {"pedestrian", "car"}
        /\ cls' = c
    /\ pc' = "raise_class"
    /\ UNCHANGED <<raw_data, t, data, unique_gt_ids, unique_tracker_ids,
                   num_gt_dets, num_tracker_dets, matched, order, solved, returned, gvars>>

\* lines 330-429: one iteration of the loop over the frames
FrameStep ==
    /\ pc = "frames"
    /\ t < raw_data.num_timesteps
    /\ \E m \in MatchOutcomes(solved, Selected(raw_data, order[t + 1], cls)) :
        LET r == FrameResult(raw_data, order[t + 1], cls, m.match)
        IN  /\ data' = [data EXCEPT !.tracker_ids[order[t + 1]] = r.tracker_ids,
                                    !.tracker_dets[order[t + 1]] = r.tracker_dets,
                                    !.tracker_confidences[order[t + 1]] = r.tracker_confidences,
                                    !.gt_ids[order[t + 1]] = r.gt_ids,
                                    !.gt_dets[order[t + 1]] = r.gt_dets,
                                    !.similarity_scores[order[t + 1]] = r.similarity_scores]
            /\ unique_gt_ids' = unique_gt_ids \o Unique(r.gt_ids)
            /\ unique_tracker_ids' = unique_tracker_ids \o Unique(r.tracker_ids)
            /\ num_tracker_dets' = num_tracker_dets + Len(r.tracker_ids)
            /\ num_gt_dets' = num_gt_dets + Len(r.gt_ids)
            /\ matched' = Append(matched, m.match)
            /\ solved' = m.solved
    /\ raw_data' = raw_data_after(raw_data, order[t + 1], cls)
    /\ t' = t + 1
    /\ UNCHANGED <<cls, pc, order, returned, gvars>>

\* lines 431-456: relabel the ids and record the overview statistics
Relabel ==
    /\ pc = "frames"
    /\ t = raw_data.num_timesteps
    /\ unique_gt_ids' = uniqued(unique_gt_ids)
    /\ unique_tracker_ids' = uniqued(unique_tracker_ids)
    /\ data' = [data EXCEPT !.gt_ids = relabel(data.gt_ids, unique_gt_ids),
                            !.tracker_ids = relabel(data.tracker_ids, unique_tracker_ids),
                            !.num_tracker_dets = num_tracker_dets,
                            !.num_gt_dets = num_gt_dets,
                            !.num_tracker_ids = Len(uniqued(unique_tracker_ids)),
                            !.num_gt_ids = Len(uniqued(unique_gt_ids)),
                            !.num_timesteps = raw_data.num_timesteps,
                            !.seq = raw_data.seq]
    /\ pc' = "check"
    /\ UNCHANGED <<raw_data, cls, t, num_gt_dets, num_tracker_dets, matched,
                   order, solved, returned, gvars>>

\* lines 459-461
CheckAndReturn ==
    /\ pc = "check"
    /\ ~check_unique_ids_raises(data)
    /\ pc' = "return"
    /\ UNCHANGED <<raw_data, cls, t, data, unique_gt_ids, unique_tracker_ids,
                   num_gt_dets, num_tracker_dets, matched, order, solved, returned, gvars>>

\* line 459: _check_unique_ids raises
RaiseDuplicateIds ==
    /\ pc = "check"
    /\ check_unique_ids_raises(data)
    /\ pc' = "raise_ids"
    /\ UNCHANGED <<raw_data, cls, t, data, unique_gt_ids, unique_tracker_ids,
                   num_gt_dets, num_tracker_dets, matched, order, solved, returned, gvars>>

Next ==
    \/ Begin
    \/ RaiseNotEvaluatable
    \/ FrameStep
    \/ Relabel
    \/ CheckAndReturn
    \/ RaiseDuplicateIds

Spec == Init /\ [][Next]_vars

(***************************************************************************)
(* Calls one after the other on the same raw_data object.                  *)
(***************************************************************************)
MaxCalls == 2          \* calls of get_preprocessed_seq_data on one raw_data

\* the rows the sequences that are evaluated more than once are drawn
\* from: two car gt boxes at 2D IoU 1 with the first tracker box, one of
\* them truncated, a tracker box at 2D IoU 0.1875 with them, and
\* pedestrians
CallGtRows ==
    LET c == class_name_to_class_id
    IN  { Row(1, c.car, 0, 2, Box80, Pose0, 100),
          Row(0, c.car, 1, 0, Box80, Pose2, 100),
          Row(2, c.pedestrian, 0, 0, Box80, Pose0, 100) }

CallTrackerRows ==
    LET c == class_name_to_class_id
    IN  { Row(0, c.car, 0, 0, Box80, Pose0, 90),
          Row(3, c.car, 0, 0, BoxThin, Pose2, 30),
          Row(1, c.pedestrian, 0, 0, Box80, Pose5, 40) }

InitCalls ==
    /\ \E nt \in 1..MaxTimesteps :
         \E g \in Files(CallGtRows, nt, MaxGtRows),
            k \in Files(CallTrackerRows, nt, MaxTrackerRows),
            first \in 1..HullStarts :
                raw_data = RawData(nt, g, k, first)
    /\ cls = ""
    /\ pc = "idle"
    /\ t = 0
    /\ data = NewData(0)
    /\ unique_gt_ids = <<>>
    /\ unique_tracker_ids = <<>>
    /\ num_gt_dets = 0
    /\ num_tracker_dets = 0
    /\ matched = <<>>
    /\ order = <<>>
    /\ solved = <<>>
    /\ returned = <<>>
    /\ GeoIdle

\* the call has ended (returned or raised) and the caller calls again: the
\* locals of the new call are new, raw_data is the same object
CallAgain ==
    /\ pc \in {"return", "raise_class", "raise_ids"}
    /\ Len(returned) + 1 < MaxCalls
    /\ returned' = Append(returned, [cls |-> cls, pc |-> pc, data |-> data])
    /\ cls' = ""
    /\ pc' = "idle"
    /\ t' = 0
    /\ data' = NewData(0)
    /\ unique_gt_ids' = <<>>
    /\ unique_tracker_ids' = <<>>
    /\ num_gt_dets' = 0
    /\ num_tracker_dets' = 0
    /\ matched' = <<>>
    /\ order' = <<>>
    /\ UNCHANGED <<raw_data, solved, gvars>>

NextCalls ==
    \/ Begin
    \/ RaiseNotEvaluatable
    \/ FrameStep
    \/ Relabel
    \/ CheckAndReturn
    \/ RaiseDuplicateIds
    \/ CallAgain

SpecCalls == InitCalls /\ [][NextCalls]_vars

(***************************************************************************)
(* The frames taken in any order: the loop of lines 330-429 with its       *)
(* iterations permuted, the relabeling after the last of them.             *)
(***************************************************************************)
FrameOrders(n) ==
    {p \in [1..n -> 1..n] : \A a \in 1..n, b \in 1..n : p[a] = p[b] => a = b}

\* the sequences of MaxTimesteps frames (one frame has one order)
InitAnyOrder ==
    /\ \E g \in Files(GtSeqRows, MaxTimesteps, MaxGtRows),
          k \in Files(TrackerSeqRows, MaxTimesteps, MaxTrackerRows),
          first \in 1..HullStarts :
            raw_data = RawData(MaxTimesteps, g, k, first)
    /\ cls = ""
    /\ pc = "idle"
    /\ t = 0
    /\ data = NewData(0)
    /\ unique_gt_ids = <<>>
    /\ unique_tracker_ids = <<>>
    /\ num_gt_dets = 0
    /\ num_tracker_dets = 0
    /\ matched = <<>>
    /\ order = <<>>
    /\ solved = <<>>
    /\ returned = <<>>
    /\ GeoIdle

BeginAnyOrder ==
    /\ pc = "idle"
    /\ \E c \in Classes :
        /\ c \in {"pedestrian", "car"}
        /\ cls' = c
    /\ data' = NewData(raw_data.num_timesteps)
    /\ order' \in FrameOrders(raw_data.num_timesteps)
    /\ pc' = "frames"
    /\ UNCHANGED <<raw_data, t, unique_gt_ids, unique_tracker_ids,
                   num_gt_dets, num_tracker_dets, matched, solved, returned, gvars>>

NextAnyOrder ==
    \/ BeginAnyOrder
    \/ RaiseNotEvaluatable
    \/ FrameStep
    \/ Relabel
    \/ CheckAndReturn
    \/ RaiseDuplicateIds

SpecAnyOrder == InitAnyOrder /\ [][NextAnyOrder]_vars

(***************************************************************************)
(* State machine of one call                                               *)
(*   __box_3d_GIoU(bboxes1, bboxes2, do_ioa, box_format).                  *)
(*   gpc: "outer" (at `for aa in bboxes1`), "inner" (at `for bb in         *)
(*   bboxes2`), "return", or "raise_format" (TrackEvalException),          *)
(*   "raise_qhull" (QhullError out of ConvexHull).                         *)
(***************************************************************************)
MaxBoxes == 3          \* boxes of one call, both lists together

Box3D(pose) == <<0, 0, 0, 0>> \o pose

\* the boxes the engine is called with: the poses of the label rows, a box
\* above them, boxes without width or without height, two boxes that
\* share a face, a box that shares one corner of the footprint of Pose0 and
\* a box whose footprint contains it
PoseAbove == <<2, 2, 4, 0, 5, 0, 0>>
PoseNoWidth == <<2, 0, 4, 0, 0, 0, 0>>
PoseNoHeight == <<0, 2, 4, 0, 0, 0, 0>>
PoseLeft == <<2, 4, 2, -1, 0, 0, 0>>    \* shares the face x = 0 with PoseRight
PoseRight == <<2, 4, 2, 1, 0, 0, 0>>
PoseCorner == <<2, 2, 4, 4, 0, 2, 0>>   \* shares the corner (2, 1) with Pose0
PoseOuter == <<2, 6, 8, 0, 0, 0, 0>>    \* its footprint contains that of Pose0

EngineBoxes ==
    { Box3D(Pose0), Box3D(Pose1), Box3D(Pose2), Box3D(Pose3), Box3D(Pose4),
      Box3D(PoseAbove), Box3D(PoseNoWidth), Box3D(PoseNoHeight),
      Box3D(PoseLeft), Box3D(PoseRight), Box3D(PoseCorner), Box3D(PoseOuter) }

BoxFormats == {"xyzhwlr", "x0y0x1y1"}

\* the locals of the inner iteration for every pair of boxes, both
\* formulas and every place the hull vertex list can begin, computed once
PairTable ==
    [aa \in EngineBoxes |-> [bb \in EngineBoxes |-> [ioa \in BOOLEAN |->
        [first \in 1..HullStarts |-> PairMetrics(aa, bb, ioa, first)]]]]

PIdle ==
    /\ raw_data = <<>> /\ cls = "" /\ pc = "none" /\ t = 0
    /\ data = NewData(0)
    /\ unique_gt_ids = <<>> /\ unique_tracker_ids = <<>>
    /\ num_gt_dets = 0 /\ num_tracker_dets = 0 /\ matched = <<>>
    /\ order = <<>> /\ solved = <<>> /\ returned = <<>>

InitGeo ==
    /\ \E n \in 0..MaxBoxes, m \in 0..MaxBoxes :
        /\ n + m <= MaxBoxes
        /\ bboxes1 \in [1..n -> EngineBoxes]
        /\ bboxes2 \in [1..m -> EngineBoxes]
    /\ do_ioa \in BOOLEAN
    /\ box_format \in BoxFormats
    /\ gpc = "outer"
    /\ aa_i = 0
    /\ bb_j = 0
    /\ row_metrics = <<>>
    /\ giou3d_metrics = <<>>
    /\ pair = <<>>
    /\ ret = EmptyMatrix
    /\ PIdle

\* line 616-617: the next aa
NextRow ==
    /\ gpc = "outer"
    /\ aa_i < Len(bboxes1)
    /\ aa_i' = aa_i + 1
    /\ bb_j' = 0
    /\ row_metrics' = <<>>
    /\ gpc' = "inner"
    /\ UNCHANGED <<bboxes1, bboxes2, do_ioa, box_format, giou3d_metrics, pair, ret, pvars>>

\* lines 618-621: the next bb, with an unsupported box_format
RaiseBoxFormat ==
    /\ gpc = "inner"
    /\ bb_j < Len(bboxes2)
    /\ box_format # "xyzhwlr"
    /\ gpc' = "raise_format"
    /\ UNCHANGED <<bboxes1, bboxes2, do_ioa, box_format, aa_i, bb_j, row_metrics,
                   giou3d_metrics, pair, ret, pvars>>

\* lines 618-635: the next bb
PairStep ==
    /\ gpc = "inner"
    /\ bb_j < Len(bboxes2)
    /\ box_format = "xyzhwlr"
    /\ \E first \in 1..HullStarts :
        pair' = PairTable[bboxes1[aa_i]][bboxes2[bb_j + 1]][do_ioa][first]
    /\ IF pair'.err = "none"
       THEN /\ row_metrics' = Append(row_metrics, pair'.metric)
            /\ bb_j' = bb_j + 1
            /\ gpc' = gpc
       ELSE /\ gpc' = "raise_qhull"
            /\ UNCHANGED <<row_metrics, bb_j>>
    /\ UNCHANGED <<bboxes1, bboxes2, do_ioa, box_format, aa_i, giou3d_metrics, ret, pvars>>

\* lines 636-637: the row is complete
EndRow ==
    /\ gpc = "inner"
    /\ bb_j = Len(bboxes2)
    /\ giou3d_metrics' = IF Len(row_metrics) > 0
                         THEN Append(giou3d_metrics, row_metrics)
                         ELSE giou3d_metrics
    /\ gpc' = "outer"
    /\ UNCHANGED <<bboxes1, bboxes2, do_ioa, box_format, aa_i, bb_j, row_metrics,
                   pair, ret, pvars>>

\* np.array(rows).reshape((n, m)), rows holding n * m entries
reshape(rows, n, m) ==
    [shape |-> <<n, m>>,
     val |-> [i \in 1..n |-> IF m = 0 THEN <<>> ELSE rows[i]]]

\* line 638
ReturnMetrics ==
    /\ gpc = "outer"
    /\ aa_i = Len(bboxes1)
    /\ ret' = reshape(giou3d_metrics, Len(bboxes1), Len(bboxes2))
    /\ gpc' = "return"
    /\ UNCHANGED <<bboxes1, bboxes2, do_ioa, box_format, aa_i, bb_j, row_metrics,
                   giou3d_metrics, pair, pvars>>

NextGeo ==
    \/ NextRow
    \/ RaiseBoxFormat
    \/ PairStep
    \/ EndRow
    \/ ReturnMetrics

SpecGeo == InitGeo /\ [][NextGeo]_vars

(***************************************************************************)
(* Properties of get_preprocessed_seq_data.                                *)
(***************************************************************************)
\* the call has left the loop over the frames and relabeled the ids
Relabeled == pc \in {"check", "return", "raise_ids"}

\* the ids of frame tt that survived the filtering, as read from the files
OrigGtIds(tt) == FrameResult(raw_data, tt, cls, matched[tt]).gt_ids
OrigTrackerIds(tt) == FrameResult(raw_data, tt, cls, matched[tt]).tracker_ids

\* the number of surviving identities below v
RankIn(S, v) == Cardinality({u \in S : u < v})

\* new holds, frame by frame, the rank of every surviving original id among
\* all surviving original ids, the ranks are 0..num-1
RelabeledBy(new, orig(_), num) ==
    LET frames == 1..raw_data.num_timesteps
        S == UNION {Range(orig(tt)) : tt \in frames}
    IN  /\ num = Cardinality(S)
        /\ \A tt \in frames :
            /\ Len(new[tt]) = Len(orig(tt))
            /\ \A i \in DOMAIN new[tt] : new[tt][i] = RankIn(S, orig(tt)[i])
        /\ UNION {Range(new[tt]) : tt \in frames} = 0..(num - 1)
        /\ \A t1 \in frames, t2 \in frames :
            \A i \in DOMAIN new[t1], j \in DOMAIN new[t2] :
                (new[t1][i] = new[t2][j]) <=> (orig(t1)[i] = orig(t2)[j])

\* C1: once the ids are relabeled, in each identity space the new ids are
\* one order-preserving map of the surviving original ids onto 0..G-1
\* (0..T-1), equal exactly where the original ids are equal, and
\* num_gt_ids = G, num_tracker_ids = T
C1_RelabelingIsBijection ==
    Relabeled =>
        /\ RelabeledBy(data.gt_ids, OrigGtIds, data.num_gt_ids)
        /\ RelabeledBy(data.tracker_ids, OrigTrackerIds, data.num_tracker_ids)

\* two frames whose surviving ids 4, 1 (ground truth) and 2, 0 (tracker)
\* have become 1, 0
C1_Witness ==
    /\ pc = "return"
    /\ raw_data.num_timesteps = 2
    /\ OrigGtIds(1) = <<4>> /\ OrigGtIds(2) = <<1>>
    /\ OrigTrackerIds(1) = <<2>> /\ OrigTrackerIds(2) = <<0>>
    /\ data.gt_ids = <<(<<1>>), (<<0>>)>>
    /\ data.tracker_ids = <<(<<1>>), (<<0>>)>>
    /\ data.num_gt_ids = 2 /\ data.num_tracker_ids = 2

\* the raw 3D similarity of the boxes aa and bb of frame tt
IsRawSimilarity(tt, aa, bb, value) ==
    \E a \in DOMAIN raw_data.gt_dets[tt], b \in DOMAIN raw_data.tracker_dets[tt] :
        /\ raw_data.gt_dets[tt][a] = aa
        /\ raw_data.tracker_dets[tt][b] = bb
        /\ raw_data.similarity_scores[tt][1].val[a][b] = value

\* C2: in every frame the loop has stored, similarity_scores has one row
\* per surviving gt box and one column per surviving tracker box, the
\* tracker arrays have one length, and entry (i, j) is the raw 3D
\* similarity of the i-th surviving gt box and the j-th surviving tracker box
C2_SimilarityInLockStep ==
    \A tt \in 1..t :
        LET sim == data.similarity_scores[tt]
            n == Len(data.gt_ids[tt])
            m == Len(data.tracker_ids[tt])
        IN  /\ sim.shape = <<n, m>>
            /\ Len(sim.val) = n
            /\ Len(data.gt_dets[tt]) = n
            /\ Len(data.tracker_dets[tt]) = m
            /\ Len(data.tracker_confidences[tt]) = m
            /\ \A i \in 1..n :
                /\ Len(sim.val[i]) = m
                /\ \A j \in 1..m :
                    IsRawSimilarity(tt, data.gt_dets[tt][i], data.tracker_dets[tt][j],
                                    sim.val[i][j])

\* a returned frame that lost one of two gt boxes and one of two tracker
\* boxes of the class
C2_Witness ==
    /\ pc = "return"
    /\ raw_data.similarity_scores[1][1].shape = <<2, 2>>
    /\ Selected(raw_data, 1, cls).similarity_scores.shape = <<2, 2>>
    /\ data.similarity_scores[1].shape = <<1, 1>>
    /\ data.similarity_scores[1].val[1][1] = raw_data.similarity_scores[1][1].val[2][1]

RECURSIVE IsSubseq(_, _)
\* a is b with some entries left out
IsSubseq(a, b) ==
    IF a = <<>> THEN TRUE
    ELSE IF b = <<>> THEN FALSE
    ELSE IF Head(a) = Head(b) /\ IsSubseq(Tail(a), Tail(b)) THEN TRUE
    ELSE IsSubseq(a, Tail(b))

\* the tracker boxes with their confidences, row by row
TrackerOut(dets, confidences) == [j \in DOMAIN dets |-> <<dets[j], confidences[j]>>]

\* gt row of the class selection that is a distractor of class c
IsDistractorGt(sel, c, row) ==
    \/ c = "car" /\ sel.gt_classes[row] = class_name_to_class_id.van
    \/ c = "pedestrian" /\ sel.gt_classes[row] = class_name_to_class_id.person
    \/ sel.gt_occlusion[row] > 2
    \/ sel.gt_truncation[row] > 0

\* a frame holding one car gt box of occlusion 3 and one car tracker box at
\* 2D IoU 0.8, evaluated for cars
OccludedScenario ==
    /\ cls = "car"
    /\ raw_data.num_timesteps = 1
    /\ raw_data.gt_classes[1] = <<class_name_to_class_id.car>>
    /\ raw_data.gt_extras[1].occlusion = <<3>>
    /\ raw_data.tracker_classes[1] = <<class_name_to_class_id.car>>
    /\ raw_data.similarity_scores[1][2].val[1][1] = <<4, 5>>

\* C3: in every frame the loop has stored, the tracker boxes whose accepted
\* match is a gt box of the distractor class, of occlusion > 2 or of
\* truncation > 0 are not among the output tracker ids, boxes and
\* confidences; the frame of OccludedScenario ends with no box on either side
C3_MatchedToDistractorRemoved ==
    /\ \A tt \in 1..t :
        LET sel == Selected(raw_data, tt, cls)
            gone == {matched[tt][k][2] : k \in {k \in DOMAIN matched[tt] :
                        IsDistractorGt(sel, cls, matched[tt][k][1])}}
        IN  /\ Len(data.tracker_ids[tt]) = Len(data.tracker_dets[tt])
            /\ Len(data.tracker_ids[tt]) <= Len(sel.tracker_ids) - Cardinality(gone)
            /\ IsSubseq(TrackerOut(data.tracker_dets[tt], data.tracker_confidences[tt]),
                        Delete(TrackerOut(sel.tracker_dets, sel.tracker_confidences), gone))
    /\ OccludedScenario /\ t = 1 =>
        /\ matched[1] = <<(<<1, 1>>)>>
        /\ data.gt_ids[1] = <<>> /\ data.gt_dets[1] = <<>>
        /\ data.tracker_ids[1] = <<>> /\ data.tracker_dets[1] = <<>>
        /\ data.tracker_confidences[1] = <<>>

\* the call on OccludedScenario has returned, nothing survives
C3_Witness ==
    /\ pc = "return"
    /\ OccludedScenario
    /\ matched[1] = <<(<<1, 1>>)>>
    /\ data.gt_ids[1] = <<>>
    /\ data.tracker_ids[1] = <<>>
    /\ data.num_gt_dets = 0 /\ data.num_tracker_dets = 0

\* the tracker box det stays when it is not matched: higher than 25 pixels
\* and at most half of its own area inside each of the regions
StaysUnmatched(det, regions) ==
    /\ det[4] - det[2] > 25
    /\ \A k \in DOMAIN regions :
        2 * Inter2D(Box2D(det), Box2D(regions[k])) <= Area2D(Box2D(det))

\* C4: in every frame the loop has stored, the tracker boxes of the class
\* outside the accepted matches that are in the output are exactly those
\* higher than 25 pixels whose intersection over their own area is <= 0.5
\* with every crowd ignore region of the frame
C4_UnmatchedSurvival ==
    \A tt \in 1..t :
        LET sel == Selected(raw_data, tt, cls)
            cols == {matched[tt][k][2] : k \in DOMAIN matched[tt]}
            free == (1..Len(sel.tracker_ids)) \ cols
            gone == {j \in free :
                        ~StaysUnmatched(sel.tracker_dets[j], raw_data.gt_crowd_ignore_regions[tt])}
        IN  \E more \in SUBSET cols :
                TrackerOut(data.tracker_dets[tt], data.tracker_confidences[tt])
                    = Delete(TrackerOut(sel.tracker_dets, sel.tracker_confidences),
                             gone \cup more)

\* a returned frame with a crowd ignore region and two unmatched tracker
\* boxes, one of IoA 0.5 that is kept and one of IoA 0.6 that is removed
C4_Witness ==
    /\ pc = "return"
    /\ cls = "car"
    /\ raw_data.num_timesteps = 1
    /\ Len(raw_data.gt_crowd_ignore_regions[1]) = 1
    /\ matched[1] = <<>>
    /\ Len(raw_data.tracker_dets[1]) = 2
    /\ Box2D(raw_data.tracker_dets[1][1]) = BoxIoA60
    /\ Box2D(raw_data.tracker_dets[1][2]) = BoxIoA50
    /\ data.tracker_dets[1] = <<raw_data.tracker_dets[1][2]>>

\* the positions of the raw gt boxes of frame tt that are of class c, of
\* occlusion <= 2 and of truncation <= 0, ascending
EvaluatedGt(tt, c) ==
    SortedSeq({i \in DOMAIN raw_data.gt_classes[tt] :
        /\ raw_data.gt_classes[tt][i] = class_name_to_class_id[c]
        /\ raw_data.gt_extras[tt].occlusion[i] <= 2
        /\ raw_data.gt_extras[tt].truncation[i] <= 0})

\* C5: in every frame the loop has stored, the output gt boxes are the raw
\* gt boxes of the class with occlusion <= 2 and truncation <= 0, in
\* their order, whatever the tracker holds and whatever was matched; the
\* ids are theirs until the relabeling, which keeps their order
C5_GtKeptByOwnAttributes ==
    \A tt \in 1..t :
        LET idx == EvaluatedGt(tt, cls)
            ids == Take(raw_data.gt_ids[tt], idx)
        IN  /\ data.gt_dets[tt] = Take(raw_data.gt_dets[tt], idx)
            /\ Len(data.gt_ids[tt]) = Len(idx)
            /\ pc = "frames" => data.gt_ids[tt] = ids
            /\ \A i \in DOMAIN ids, j \in DOMAIN ids :
                (data.gt_ids[tt][i] < data.gt_ids[tt][j]) <=> (ids[i] < ids[j])

\* a returned frame whose first gt box is truncated and matched to a
\* tracker box, and whose second gt box is the one in the output
C5_Witness ==
    /\ pc = "return"
    /\ cls = "car"
    /\ Len(raw_data.gt_dets[1]) = 2
    /\ raw_data.gt_extras[1].truncation = <<1, 0>>
    /\ \E k \in DOMAIN matched[1] : matched[1][k][1] = 1
    /\ data.gt_dets[1] = <<raw_data.gt_dets[1][2]>>

\* some frame holds an identity twice
Twice(ids) == Cardinality(Range(ids)) < Len(ids)
DuplicateSurvives ==
    \E tt \in 1..raw_data.num_timesteps : Twice(OrigGtIds(tt)) \/ Twice(OrigTrackerIds(tt))

\* C6: when a frame holds two surviving gt detections or two surviving
\* tracker detections of one identity, the call does not return: the
\* relabeled frames still hold every detection and the duplicate, the
\* check can only raise
C6_DuplicateIdsAreFatal ==
    /\ pc = "return" => ~DuplicateSurvives
    /\ Relabeled =>
        \A tt \in 1..raw_data.num_timesteps :
            /\ Len(data.gt_ids[tt]) = Len(OrigGtIds(tt))
            /\ Len(data.tracker_ids[tt]) = Len(OrigTrackerIds(tt))
            /\ Twice(OrigGtIds(tt)) => Twice(data.gt_ids[tt])
            /\ Twice(OrigTrackerIds(tt)) => Twice(data.tracker_ids[tt])
    /\ pc = "check" /\ DuplicateSurvives =>
        ENABLED RaiseDuplicateIds /\ ~ENABLED CheckAndReturn

\* the call has raised on a frame with two surviving tracker boxes of
\* identity 2
C6_Witness ==
    /\ pc = "raise_ids"
    /\ OrigTrackerIds(1) = <<2, 2>>
    /\ Len(data.tracker_ids[1]) = 2

(***************************************************************************)
(* Properties of the 3D similarity engine, on the locals PairStep leaves   *)
(* in pair.                                                                *)
(***************************************************************************)
PositiveExtents(box) == box[5] > 0 /\ box[6] > 0 /\ box[7] > 0

\* twice the interval a box of yaw ry (quarter turns) covers on the x axis
\* and on the z axis, from its parameters
SpanX2(box) ==
    LET e == IF box[11] % 2 = 0 THEN box[7] ELSE box[6]
    IN  <<2 * box[8] - e, 2 * box[8] + e>>
SpanZ2(box) ==
    LET e == IF box[11] % 2 = 0 THEN box[6] ELSE box[7]
    IN  <<2 * box[10] - e, 2 * box[10] + e>>
Apart(i, j) == i[2] <= j[1] \/ j[2] <= i[1]

\* the footprints share no area: at most they touch
FootprintsApart(aa, bb) ==
    \/ Apart(SpanX2(aa), SpanX2(bb))
    \/ Apart(SpanZ2(aa), SpanZ2(bb))

\* the boxes overlap over no height
NoVerticalOverlap(aa, bb) ==
    Min2(aa[9], bb[9]) - Max2(aa[9] - aa[5], bb[9] - bb[5]) <= 0

\* the cases of degenerate geometry: the footprint clip is empty, the clip
\* result or the footprint corners of both boxes span no area, or the
\* boxes overlap over no height
Degenerate(p) ==
    \/ p.clip = None
    \/ FlatPoints(Range(p.clip))
    \/ FlatPoints(Range(Footprint(compute_box_3d(p.aa)))
                    \cup Range(Footprint(compute_box_3d(p.bb))))
    \/ NoVerticalOverlap(p.aa, p.bb)

\* C7: for every pair of degenerate geometry the engine does not raise and
\* the intersection is 0
C7_DegenerateNeverRaises ==
    pair # <<>> /\ Degenerate(pair) =>
        /\ gpc # "raise_qhull"
        /\ pair.err = "none"
        /\ pair.inter = RInt(0)

\* the engine has raised QhullError on a box without width against a box
\* that contains its footprint
C7_Witness ==
    /\ gpc = "raise_qhull"
    /\ pair.aa = Box3D(PoseNoWidth)
    /\ pair.bb = Box3D(Pose0)
    /\ Degenerate(pair)
    /\ pair.err = "QhullError"

\* C8: a call with a box_format other than 'xyzhwlr' returns no matrix,
\* whatever the two lists hold
C8_UnsupportedFormatRaises ==
    box_format # "xyzhwlr" => gpc # "return"

\* the engine has returned a matrix for an unsupported box_format and an
\* empty first list
C8_Witness ==
    /\ gpc = "return"
    /\ box_format = "x0y0x1y1"
    /\ bboxes1 = <<>>
    /\ Len(bboxes2) = 1
    /\ ret.shape = <<0, 1>>

IdenticalTable ==
    [b \in {r.det : r \in GtRows \cup TrackerRows} |->
        [first \in 1..HullStarts |-> PairMetrics(b, b, FALSE, first)]]

\* the 3D parameters of a detection row
Pose(det) == SubSeq(det, 5, 11)

\* C9, the engine on the pair (b, b): the clip is the whole footprint, the
\* intersection is the volume (IoU 1), the enclosing volume is the volume
\* and the normalized GIoU is 1
IdenticalScoresOne(b) ==
    \A first \in 1..HullStarts :
        LET p == IdenticalTable[b][first]
        IN  /\ p.err = "none"
            /\ Len(p.clip) = 4
            /\ Range(p.clip) = Range(Footprint(compute_box_3d(b)))
            /\ p.inter = p.vol1 /\ p.vol1 = p.vol2
            /\ RLess(RInt(0), p.vol1)
            /\ p.A_c = p.vol1
            /\ p.metric = RInt(1)

\* one frame, one car gt box, one car tracker box of the same row
IdenticalScenario ==
    /\ cls = "car"
    /\ raw_data.num_timesteps = 1
    /\ Len(raw_data.gt_dets[1]) = 1 /\ Len(raw_data.tracker_dets[1]) = 1
    /\ raw_data.gt_dets[1][1] = raw_data.tracker_dets[1][1]
    /\ raw_data.gt_classes[1][1] = class_name_to_class_id.car
    /\ raw_data.tracker_classes[1][1] = class_name_to_class_id.car
    /\ raw_data.gt_extras[1].occlusion[1] <= 2
    /\ raw_data.gt_extras[1].truncation[1] <= 0

\* C9: every gt box and tracker box of a frame with the same 3D parameters
\* and positive extents have the raw similarity 1, the engine finding the
\* whole footprint, IoU 1 and the enclosing volume equal to the volume;
\* the call on IdenticalScenario returns both boxes with similarity 1,
\* one gt id and one tracker id
C9_IdenticalBoxesScoreOne ==
    /\ \A tt \in 1..raw_data.num_timesteps :
        \A i \in DOMAIN raw_data.gt_dets[tt], j \in DOMAIN raw_data.tracker_dets[tt] :
            LET aa == raw_data.gt_dets[tt][i]
                bb == raw_data.tracker_dets[tt][j]
            IN  Pose(aa) = Pose(bb) /\ PositiveExtents(aa) =>
                    /\ IdenticalScoresOne(aa)
                    /\ IdenticalScoresOne(bb)
                    /\ raw_data.similarity_scores[tt][1].val[i][j] = RInt(1)
    /\ IdenticalScenario /\ pc = "return" =>
        /\ data.gt_dets[1] = raw_data.gt_dets[1]
        /\ data.tracker_dets[1] = raw_data.tracker_dets[1]
        /\ data.gt_ids[1] = <<0>> /\ data.tracker_ids[1] = <<0>>
        /\ data.similarity_scores[1] = [shape |-> <<1, 1>>, val |-> <<(<<RInt(1)>>)>>]
        /\ data.num_gt_ids = 1 /\ data.num_tracker_ids = 1
        /\ data.num_gt_dets = 1 /\ data.num_tracker_dets = 1

\* the call on IdenticalScenario has returned the pair with similarity 1
C9_Witness ==
    /\ pc = "return"
    /\ IdenticalScenario
    /\ IdenticalScoresOne(raw_data.gt_dets[1][1])
    /\ data.gt_ids[1] = <<0>> /\ data.tracker_ids[1] = <<0>>
    /\ data.similarity_scores[1].val[1][1] = RInt(1)

(***************************************************************************)
(* Range of the scores of the engine.                                      *)
(***************************************************************************)
InUnitInterval(a) == IsFinite(a) /\ RLeq(RInt(0), a) /\ RLeq(a, RInt(1))

\* 0 <= intersection <= union <= C and C > 0 for the locals of a pair
VolumesOrdered(p) ==
    LET union == RSub(RAdd(p.vol1, p.vol2), p.inter)
    IN  /\ RLeq(RInt(0), p.inter)
        /\ RLeq(p.inter, union)
        /\ RLeq(union, p.A_c)
        /\ RLess(RInt(0), p.A_c)

\* the raw score of a pair, before the normalization
RawScore(p) == giou3d(p.inter, p.vol1, p.vol2, p.A_c, do_ioa)

\* C11: every entry the engine computes lies in [0, 1], in the IoU and in
\* the IoA variant: the volumes are ordered 0 <= intersection <= union <= C
\* with C > 0 and the raw score lies in [-1, 1]
C11_ScoresInUnitInterval ==
    /\ pair # <<>> /\ pair.err = "none" =>
        /\ VolumesOrdered(pair)
        /\ IsFinite(RawScore(pair))
        /\ RLeq(RInt(-1), RawScore(pair)) /\ RLeq(RawScore(pair), RInt(1))
        /\ InUnitInterval(pair.metric)
    /\ \A i \in DOMAIN row_metrics : InUnitInterval(row_metrics[i])
    /\ \A i \in DOMAIN ret.val : \A j \in DOMAIN ret.val[i] : InUnitInterval(ret.val[i][j])

\* C11 for boxes of positive extents only
C11_PositiveBoxesInUnitInterval ==
    pair # <<>> /\ PositiveExtents(pair.aa) /\ PositiveExtents(pair.bb) =>
        /\ pair.err = "none"
        /\ VolumesOrdered(pair)
        /\ InUnitInterval(pair.metric)

\* the engine has returned a matrix whose only entry is not a number: a
\* box without height against itself, in the IoU variant
C11_Witness ==
    /\ gpc = "return"
    /\ ~do_ioa
    /\ bboxes1 = <<Box3D(PoseNoHeight)>>
    /\ bboxes2 = <<Box3D(PoseNoHeight)>>
    /\ pair.err = "none"
    /\ pair.vol1 = RInt(0) /\ pair.A_c = RInt(0)
    /\ ret.shape = <<1, 1>>
    /\ ~IsFinite(ret.val[1][1])

(***************************************************************************)
(* Symmetry of the footprint clip.                                         *)
(***************************************************************************)
\* __convex_hull_intersection of the footprints of two boxes
FootprintIntersection(aa, bb) ==
    convex_hull_intersection(Footprint(compute_box_3d(aa)), Footprint(compute_box_3d(bb)))

\* the footprint of the box is a rectangle of positive area (a convex
\* polygon with an orientation)
ProperFootprint(box) == box[6] > 0 /\ box[7] > 0

\* C12: for two footprints of positive area the intersection area is the
\* same in both orders of the two boxes: both clips empty with area 0, or
\* both with the same area, and neither order raises
C12_ClipAreaSymmetric ==
    pair # <<>> /\ ProperFootprint(pair.aa) /\ ProperFootprint(pair.bb) =>
        LET ab == FootprintIntersection(pair.aa, pair.bb)
            ba == FootprintIntersection(pair.bb, pair.aa)
        IN  /\ ab.err = "none" /\ ba.err = "none"
            /\ ab.area = ba.area
            /\ (ab.inter = None) <=> (ba.inter = None)

\* the engine has scored two boxes whose footprints overlap in part: the
\* clip has area 1 in both orders, with different vertex lists
C12_Witness ==
    /\ pair # <<>>
    /\ pair.aa = Box3D(Pose0) /\ pair.bb = Box3D(Pose1)
    /\ pair.clip = FootprintIntersection(pair.aa, pair.bb).inter
    /\ FootprintIntersection(pair.aa, pair.bb).area = RInt(1)
    /\ FootprintIntersection(pair.bb, pair.aa).area = RInt(1)
    /\ FootprintIntersection(pair.bb, pair.aa).inter # pair.clip

(***************************************************************************)
(* The enclosing rectangle of the combined footprints.                     *)
(***************************************************************************)
\* the hull of the footprint corners of both boxes, as __bbox3d_min_oobb
\* builds it, its vertex list beginning at the first-th vertex
CombinedHull(aa, bb, first) ==
    ConvexHull(Footprint(compute_box_3d(aa)) \o Footprint(compute_box_3d(bb)), first)

\* the area of the footprint of a box
FootprintArea(box) == Rat(Shoelace2(Footprint(compute_box_3d(box)), 1), 2)

\* the vertical span covering both boxes
VerticalSpan(aa, bb) == Max2(aa[9], bb[9]) - Min2(aa[9] - aa[5], bb[9] - bb[5])

\* the area __min_bounding_rect returned for the pair: the enclosing
\* volume over the vertical span, or, for a span of 0, the area for any
\* place the hull vertex list can begin
EnclosingAreas(p) ==
    IF VerticalSpan(p.aa, p.bb) > 0
    THEN {RDiv(p.A_c, RInt(VerticalSpan(p.aa, p.bb)))}
    ELSE {min_bounding_rect(CombinedHull(p.aa, p.bb, first).vertices) :
            first \in 1..HullStarts}

\* C13: the area of the enclosing rectangle the engine found is at least
\* the footprint area of each box and at least the area of the hull of
\* the combined footprints, and the enclosing volume, that area times the
\* vertical span, is at least the union volume
C13_EnclosingRectangleCovers ==
    pair # <<>> /\ pair.err = "none" =>
        /\ \A area \in EnclosingAreas(pair) :
            /\ IsFinite(area)
            /\ RLeq(FootprintArea(pair.aa), area)
            /\ RLeq(FootprintArea(pair.bb), area)
            /\ RLeq(CombinedHull(pair.aa, pair.bb, 1).volume, area)
            /\ pair.A_c = RMul(area, RInt(VerticalSpan(pair.aa, pair.bb)))
        /\ RLeq(RSub(RAdd(pair.vol1, pair.vol2), pair.inter), pair.A_c)

\* the engine has scored two boxes whose combined footprint is a hexagon:
\* the enclosing rectangle is larger than the hull, which is larger than
\* each footprint
C13_Witness ==
    /\ pair # <<>> /\ pair.err = "none"
    /\ pair.aa = Box3D(Pose0) /\ pair.bb = Box3D(Pose4)
    /\ Len(CombinedHull(pair.aa, pair.bb, 1).vertices) = 6
    /\ RLess(FootprintArea(pair.aa), CombinedHull(pair.aa, pair.bb, 1).volume)
    /\ CombinedHull(pair.aa, pair.bb, 1).volume = RInt(22)
    /\ \A area \in EnclosingAreas(pair) : RLess(RInt(22), area)
    /\ row_metrics = <<pair.metric>>

(***************************************************************************)
(* The edges the enclosing rectangle search tests.                         *)
(***************************************************************************)
\* every edge of the closed hull polygon, the closing edge from the last
\* vertex back to the first included
ClosedPolygonEdges(hull_points_2d) ==
    [i \in 1..Len(hull_points_2d) |->
        Vec(hull_points_2d[i], hull_points_2d[(i % Len(hull_points_2d)) + 1])]

\* the smallest width x height over the directions of all edges of the
\* closed hull polygon
MinAreaOverAllEdges(hull_points_2d) ==
    MinArea(hull_points_2d, ClosedPolygonEdges(hull_points_2d), 1, MaxSize)

\* C17: the area the search returns is the minimum of width x height over
\* the directions of all n edges of the closed hull polygon of the combined
\* footprints
C17_EveryEdgeTested ==
    pair # <<>> /\ pair.err = "none" =>
        \A area \in EnclosingAreas(pair) :
            area = MinAreaOverAllEdges(CombinedHull(pair.aa, pair.bb, 1).vertices)

\* the engine has scored two boxes whose smallest enclosing rectangle lies
\* along the one hull edge that closes the vertex list: the search returned
\* 32, the minimum over all six edges is 28
C17_Witness ==
    /\ pair # <<>> /\ pair.err = "none"
    /\ pair.aa = Box3D(Pose0) /\ pair.bb = Box3D(Pose4)
    /\ Len(CombinedHull(pair.aa, pair.bb, 1).vertices) = 6
    /\ MinAreaOverAllEdges(CombinedHull(pair.aa, pair.bb, 1).vertices) = RInt(28)
    /\ EnclosingAreas(pair) = {RInt(32)}
    /\ row_metrics = <<pair.metric>>

(***************************************************************************)
(* Properties of calls one after the other on one raw_data (SpecCalls).    *)
(***************************************************************************)
Ended == pc \in {"return", "raise_class", "raise_ids"}

TieInFrame(tt, c) ==
    LET sel == Selected(raw_data, tt, c)
    IN  /\ Len(sel.gt_ids) = 2 /\ Len(sel.tracker_ids) = 1
        /\ Cardinality(MatchChoices(sel)) = 2
        /\ \E m1 \in MatchChoices(sel), m2 \in MatchChoices(sel) :
            FrameResult(raw_data, tt, c, m1) # FrameResult(raw_data, tt, c, m2)

C15_RawDataUnchanged == [][raw_data' = raw_data]_vars

\* some entry of the raw 2D similarity matrix of frame tt, between boxes of
\* class c, is positive and below the matching threshold
HasEntryBelowThreshold(tt, c) ==
    LET sim2d == Selected(raw_data, tt, c).similarity_scores_2d
    IN  \E i \in DOMAIN sim2d.val : \E j \in DOMAIN sim2d.val[i] :
            /\ RLess(RInt(0), sim2d.val[i][j])
            /\ RLess(sim2d.val[i][j], MatchThreshold)

\* a call for cars has thresholded an entry of 0.1875 and returned, and a
\* second call, for pedestrians, has returned: the raw entry is still there
C15_Witness ==
    /\ pc = "return"
    /\ cls = "pedestrian"
    /\ Len(returned) = 1
    /\ returned[1].cls = "car" /\ returned[1].pc = "return"
    /\ HasEntryBelowThreshold(1, "car")
    /\ raw_data.similarity_scores[1][2].val[1][1] = <<3, 16>>
    /\ Len(data.gt_ids[1]) = 1

(***************************************************************************)
(* Properties of the frames taken in any order (SpecAnyOrder).             *)
(***************************************************************************)
\* the accepted matches of frame tt, from the assignment
\* linear_sum_assignment returned for its matrix
MatchOfFrame(tt) ==
    LET sel == Selected(raw_data, tt, cls)
        M == matching_scores(sel)
    IN  IF Len(sel.gt_ids) > 0 /\ Len(sel.tracker_ids) > 0
        THEN ActuallyMatched(M, solved[M])
        ELSE <<>>

\* the filtered record of frame tt, from the raw data of frame tt and the
\* class alone
FilteredFrame(tt) == FrameResult(raw_data, tt, cls, MatchOfFrame(tt))

RECURSIVE SequentialGtIds(_)
\* unique_gt_ids after the frames 1 .. tt in this order
SequentialGtIds(tt) ==
    IF tt = 0 THEN <<>> ELSE SequentialGtIds(tt - 1) \o Unique(FilteredFrame(tt).gt_ids)

RECURSIVE SequentialTrackerIds(_)
SequentialTrackerIds(tt) ==
    IF tt = 0 THEN <<>>
    ELSE SequentialTrackerIds(tt - 1) \o Unique(FilteredFrame(tt).tracker_ids)

RECURSIVE SequentialCount(_, _)
SequentialCount(tt, key) ==
    IF tt = 0 THEN 0 ELSE SequentialCount(tt - 1, key) + Len(FilteredFrame(tt)[key])

\* the data of the call with the frames taken in the order 1, 2, ...
SequentialData ==
    LET nt == raw_data.num_timesteps
        frames == [tt \in 1..nt |-> FilteredFrame(tt)]
    IN  [gt_ids |-> relabel([tt \in 1..nt |-> frames[tt].gt_ids], SequentialGtIds(nt)),
         tracker_ids |-> relabel([tt \in 1..nt |-> frames[tt].tracker_ids],
                                 SequentialTrackerIds(nt)),
         gt_dets |-> [tt \in 1..nt |-> frames[tt].gt_dets],
         tracker_dets |-> [tt \in 1..nt |-> frames[tt].tracker_dets],
         tracker_confidences |-> [tt \in 1..nt |-> frames[tt].tracker_confidences],
         similarity_scores |-> [tt \in 1..nt |-> frames[tt].similarity_scores],
         num_tracker_dets |-> SequentialCount(nt, "tracker_ids"),
         num_gt_dets |-> SequentialCount(nt, "gt_ids"),
         num_tracker_ids |-> Len(uniqued(SequentialTrackerIds(nt))),
         num_gt_ids |-> Len(uniqued(SequentialGtIds(nt))),
         num_timesteps |-> nt, seq |-> raw_data.seq]

OneToOnePairSets(n, m) ==
    {P \in SUBSET ((1..n) \X (1..m)) :
        \A p \in P, q \in P : (p[1] = q[1] \/ p[2] = q[2]) => p = q}

\* the weight of a pair: its 2D IoU, or 0 when that is below the threshold
PairWeight(sel, p) ==
    LET iou == sel.similarity_scores_2d.val[p[1]][p[2]]
    IN  IF RLeq(MatchThreshold, iou) THEN iou ELSE RInt(0)

RECURSIVE SetWeight(_, _)
SetWeight(sel, P) ==
    IF P = {} THEN RInt(0)
    ELSE LET p == CHOOSE q \in P : TRUE
         IN  RAdd(PairWeight(sel, p), SetWeight(sel, P \ {p}))

\* the frames filtered so far
FramesDone == IF pc = "frames" THEN 1..t ELSE 1..Len(matched)

\* C18: the accepted matches of a frame use no gt row and no tracker
\* column twice, every accepted pair has a 2D IoU of at least 0.25, their
\* total weight is the greatest any one-to-one set of pairs can have with
\* the IoUs below 0.25 counted as 0, the tracker columns outside them are
\* the ones filtered as unmatched, and a frame without gt rows or without
\* tracker rows has no match
C18_MatchesAreMaximumWeight ==
    \A k \in FramesDone :
        LET sel == Selected(raw_data, order[k], cls)
            n == Len(sel.gt_ids)
            m == Len(sel.tracker_ids)
            pairs == Range(matched[k])
            crowd == raw_data.gt_crowd_ignore_regions[order[k]]
            outside == (1..m) \ {p[2] : p \in pairs}
            removed == {p[2] : p \in {q \in pairs :
                            \/ is_distractor_class(sel, cls, q[1])
                            \/ is_occluded_or_truncated(sel, q[1])}}
                       \cup {j \in outside :
                               \/ is_too_small(sel.tracker_dets[j])
                               \/ is_within_crowd_ignore_region(sel.tracker_dets[j], crowd)}
        IN  /\ Cardinality(pairs) = Len(matched[k])
            /\ pairs \in OneToOnePairSets(n, m)
            /\ \A p \in pairs :
                RLeq(MatchThreshold, sel.similarity_scores_2d.val[p[1]][p[2]])
            /\ \A P \in OneToOnePairSets(n, m) :
                RLeq(SetWeight(sel, P), SetWeight(sel, pairs))
            /\ (n = 0 \/ m = 0) => matched[k] = <<>>
            /\ data.tracker_dets[order[k]] = Delete(sel.tracker_dets, removed)

\* a frame with one gt box and two tracker boxes, of 2D IoU exactly 0.25
\* and 0.15 with it: the first pair is the accepted match, the second
\* tracker box stays as an unmatched one
C18_Witness ==
    /\ pc = "return" /\ cls = "car"
    /\ raw_data.num_timesteps = 1
    /\ Len(raw_data.gt_ids[1]) = 1 /\ Len(raw_data.tracker_ids[1]) = 2
    /\ raw_data.similarity_scores[1][2].val = <<<<(<<1, 4>>), (<<3, 20>>)>>>>
    /\ matched = <<(<<(<<1, 1>>)>>)>>
    /\ Len(data.tracker_ids[1]) = 1
    /\ data.tracker_dets[1] = <<raw_data.tracker_dets[1][2]>>

(***************************************************************************)
(* Properties of the removal of tracker boxes (Spec).                      *)
(***************************************************************************)
\* the gt row is of the class itself, with occlusion <= 2 and truncation
\* <= 0
NormalGt(sel, row) ==
    /\ sel.gt_classes[row] = cls_id(cls)
    /\ sel.gt_occlusion[row] <= 2
    /\ sel.gt_truncation[row] <= 0

\* the place of column j among the columns left after the removal of rm
PlaceAfterRemoval(j, rm) == j - Cardinality({r \in rm : r < j})

\* C19: in every frame the tracker columns removed as matched and those
\* removed as unmatched are disjoint, the first among the matched columns
\* and the second among the others, so that every column is in exactly one
\* of the four groups; and a tracker box matched to a gt box of the class
\* with occlusion <= 2 and truncation <= 0 is in the output, whatever its
\* height and its overlap with the crowd ignore regions
C19_MatchedToNormalGtSurvives ==
    \A k \in FramesDone :
        LET sel == Selected(raw_data, order[k], cls)
            m == Len(sel.tracker_ids)
            crowd == raw_data.gt_crowd_ignore_regions[order[k]]
            match_cols == {matched[k][i][2] : i \in DOMAIN matched[k]}
            mr == to_remove_matched(sel, cls, matched[k])
            ur == to_remove_unmatched(sel, matched[k], crowd)
            groups == <<mr, match_cols \ mr, ur, ((1..m) \ match_cols) \ ur>>
        IN  /\ mr \cap ur = {}
            /\ mr \subseteq match_cols
            /\ ur \subseteq (1..m) \ match_cols
            /\ \A j \in 1..m : Cardinality({g \in 1..4 : j \in groups[g]}) = 1
            /\ Len(data.tracker_dets[order[k]]) = m - Cardinality(mr \cup ur)
            /\ \A i \in DOMAIN matched[k] :
                LET row == matched[k][i][1]
                    col == matched[k][i][2]
                    place == PlaceAfterRemoval(col, mr \cup ur)
                IN  NormalGt(sel, row) =>
                        /\ col \notin mr \cup ur
                        /\ data.tracker_dets[order[k]][place] = sel.tracker_dets[col]
                        /\ data.tracker_confidences[order[k]][place]
                               = sel.tracker_confidences[col]

\* a returned car frame with a crowd ignore region and one gt box, in
\* which the tracker box of height 30 lying 60% inside the region is
\* matched to the gt box and kept
C19_Witness ==
    /\ pc = "return" /\ cls = "car"
    /\ raw_data.num_timesteps = 1
    /\ Len(raw_data.gt_crowd_ignore_regions[1]) = 1
    /\ Len(raw_data.gt_ids[1]) = 1 /\ Len(raw_data.tracker_ids[1]) = 1
    /\ Box2D(raw_data.tracker_dets[1][1]) = BoxIoA60
    /\ is_within_crowd_ignore_region(raw_data.tracker_dets[1][1],
                                     raw_data.gt_crowd_ignore_regions[1])
    /\ matched = <<(<<(<<1, 1>>)>>)>>
    /\ data.tracker_dets[1] = raw_data.tracker_dets[1]
    /\ data.tracker_ids[1] = <<0>>

\* a returned car frame in which the tracker box of height 25 is matched
\* to a gt box of the class and kept
C19_SmallMatchedKept ==
    /\ pc = "return" /\ cls = "car"
    /\ raw_data.num_timesteps = 1
    /\ Len(raw_data.tracker_ids[1]) = 1
    /\ is_too_small(raw_data.tracker_dets[1][1])
    /\ matched = <<(<<(<<1, 1>>)>>)>>
    /\ data.tracker_dets[1] = raw_data.tracker_dets[1]
====
